---- MODULE Spec2Model ----
(***************************************************************************)
(* Model of wirefilter's execution context (src/context/execution.rs):     *)
(* the typed comparison engine (range_order, ip_order, partial_cmp,        *)
(* exec_op), the Context implementation (get_field, compare, one_of) and   *)
(* the Filter implementation for bool (combine, unary).                    *)
(***************************************************************************)
EXTENDS Integers, Sequences, FiniteSets, TLC

VARIABLES env, call, result, had_failure

vars == <<env, call, result, had_failure>>

----------------------------------------------------------------------------
(* Bounds *)

\* addresses are AddrBits wide (32 / 128 in the program)
AddrBits == 1
\* unsigned integers range over 0..MaxU (u64 in the program)
MaxU == 3
\* byte sequences have at most MaxLen bytes
MaxLen == 1
\* one_of receives at most MaxCands candidates
MaxCands == 2
\* range_order is exercised on 0..RangeMax
RangeMax == 4

----------------------------------------------------------------------------
(* Value model *)

Pow2(n) == IF n = 0 THEN 1 ELSE IF n = 1 THEN 2 ELSE IF n = 2 THEN 4
           ELSE IF n = 3 THEN 8 ELSE IF n = 4 THEN 16 ELSE 32

Addrs == 0 .. (Pow2(AddrBits) - 1)

\* '(' , 'a' and the byte 0xFF, which never occurs in valid text
ByteVals == {40, 97, 255}

ByteSeqs == UNION {[1..n -> ByteVals] : n \in 0..MaxLen}

Families == {"V4", "V6"}

LhsValue ==
    {[t |-> "IpAddr", fam |-> f, addr |-> a] : f \in Families, a \in Addrs}
    \cup {[t |-> "Bytes", raw |-> b] : b \in ByteSeqs}
    \cup {[t |-> "Unsigned", n |-> n] : n \in 0..MaxU}

\* a CIDR block: a base address whose host bits are zero, and a prefix length
IpCidr ==
    {[t |-> "IpCidr", fam |-> f, base |-> b, len |-> l] :
        f \in Families,
        b \in {a \in Addrs : TRUE},
        l \in 0..AddrBits}

RhsValue ==
    {c \in IpCidr : c.base % Pow2(AddrBits - c.len) = 0}
    \cup {[t |-> "Bytes", raw |-> b] : b \in ByteSeqs}
    \cup {[t |-> "Unsigned", n |-> n] : n \in 0..MaxU}

first_address(c) == c.base

last_address(c) == c.base + Pow2(AddrBits - c.len) - 1

Orderings == {"Less", "Equal", "Greater"}

OrderingMask == SUBSET Orderings

EQUAL == {"Equal"}

mask_contains(mask, ordering) == ordering \in mask

MatchingOp == {"Matches", "BitwiseAnd", "Contains"}

ComparisonOp ==
    {[k |-> "Ordering", mask |-> m] : m \in OrderingMask}
    \cup {[k |-> "Matching", m |-> m] : m \in MatchingOp}

CombiningOp == {"And", "Or", "Xor"}

UnaryOp == {"Not"}

Type == {"IpAddrV4", "IpAddrV6", "String", "Bytes", "Unsigned"}

\* Result<bool, Type>, plus the outcome of a panic unwinding out of the call
Ok(b) == [kind |-> "Ok", val |-> b]
Err(ty) == [kind |-> "Err", ty |-> ty]
Panic == [kind |-> "Panic"]

\* Option<T>
Some(x) == [kind |-> "Some", value |-> x]
None == [kind |-> "None"]

----------------------------------------------------------------------------
(* Byte sequences *)

cmp(a, b) == IF a < b THEN "Less" ELSE IF a > b THEN "Greater" ELSE "Equal"

RECURSIVE bytes_cmp_from(_, _, _)
bytes_cmp_from(a, b, i) ==
    IF i > Len(a) /\ i > Len(b) THEN "Equal"
    ELSE IF i > Len(a) THEN "Less"
    ELSE IF i > Len(b) THEN "Greater"
    ELSE IF a[i] # b[i] THEN cmp(a[i], b[i])
    ELSE bytes_cmp_from(a, b, i + 1)

bytes_cmp(a, b) == bytes_cmp_from(a, b, 1)

bytes_contains(hay, needle) ==
    \E s \in 0..(Len(hay) - Len(needle)) :
        \A i \in 1..Len(needle) : hay[s + i] = needle[i]

is_str(raw) == \A i \in 1..Len(raw) : raw[i] < 128

as_str(raw) == IF is_str(raw) THEN Some(raw) ELSE None

----------------------------------------------------------------------------
(* Regex::new and Regex::is_match on the pattern texts of the model: a     *)
(* pattern is rejected when a group is left open or closed without being   *)
(* opened; the remaining patterns are literals, matched anywhere.          *)

RECURSIVE paren_depth_ok(_, _, _)
paren_depth_ok(p, i, depth) ==
    IF i > Len(p) THEN depth = 0
    ELSE IF p[i] = 40 THEN paren_depth_ok(p, i + 1, depth + 1)
    ELSE IF p[i] = 41 THEN depth > 0 /\ paren_depth_ok(p, i + 1, depth - 1)
    ELSE paren_depth_ok(p, i + 1, depth)

regex_new_ok(p) == paren_depth_ok(p, 1, 0)

regex_is_match(p, text) == bytes_contains(text, p)

----------------------------------------------------------------------------
(* Comparison / ordering engine *)

\* range_order with the last address excluded from the range
range_order_half_open(lhs, rhs_first, rhs_last) ==
    LET c1 == cmp(lhs, rhs_first)
        c2 == cmp(lhs, rhs_last)
    IN  IF c1 = "Less" THEN "Less"
        ELSE IF c2 \in {"Greater", "Equal"} THEN "Greater"
        ELSE "Equal"

range_order(lhs, rhs_first, rhs_last) ==
    LET c1 == cmp(lhs, rhs_first)
        c2 == cmp(lhs, rhs_last)
    IN  IF c1 = "Less" THEN "Less"
        ELSE IF c2 = "Greater" THEN "Greater"
        ELSE "Equal"

\* ip_order comparing against the network address only
ip_order_identity(lhs, rhs) ==
    range_order(lhs, first_address(rhs), first_address(rhs))

ip_order(lhs, rhs) == range_order(lhs, first_address(rhs), last_address(rhs))

\* partial_cmp that does not tell the address families apart
partial_cmp_any_family(self, other) ==
    IF self.t = "IpAddr" /\ other.t = "IpCidr"
    THEN Some(ip_order(self.addr, other))
    ELSE IF self.t = "Unsigned" /\ other.t = "Unsigned"
    THEN Some(cmp(self.n, other.n))
    ELSE IF self.t = "Bytes" /\ other.t = "Bytes"
    THEN Some(bytes_cmp(self.raw, other.raw))
    ELSE None

partial_cmp(self, other) ==
    IF self.t = "IpAddr" /\ other.t = "IpCidr"
       /\ self.fam = "V4" /\ other.fam = "V4"
    THEN Some(ip_order(self.addr, other))
    ELSE IF self.t = "IpAddr" /\ other.t = "IpCidr"
            /\ self.fam = "V6" /\ other.fam = "V6"
    THEN Some(ip_order(self.addr, other))
    ELSE IF self.t = "Unsigned" /\ other.t = "Unsigned"
    THEN Some(cmp(self.n, other.n))
    ELSE IF self.t = "Bytes" /\ other.t = "Bytes"
    THEN Some(bytes_cmp(self.raw, other.raw))
    ELSE None

RECURSIVE bitand(_, _)
bitand(a, b) ==
    IF a = 0 \/ b = 0 THEN 0
    ELSE (a % 2) * (b % 2) + 2 * bitand(a \div 2, b \div 2)

\* exec_op whose Matches arm checks the text flag of the value only
exec_op_lhs_text_only(lhs, op, rhs) ==
    IF op.k = "Ordering"
    THEN LET o == partial_cmp(lhs, rhs)
         IN  IF o.kind = "Some"
             THEN Some(mask_contains(op.mask, o.value))
             ELSE None
    ELSE IF lhs.t = "Bytes" /\ op.m = "Matches" /\ rhs.t = "Bytes"
    THEN IF as_str(lhs.raw).kind = "Some"
         THEN IF regex_new_ok(rhs.raw)
              THEN Some(regex_is_match(rhs.raw, as_str(lhs.raw).value))
              ELSE Panic
         ELSE None
    ELSE IF lhs.t = "Unsigned" /\ op.m = "BitwiseAnd" /\ rhs.t = "Unsigned"
    THEN Some(bitand(lhs.n, rhs.n) # 0)
    ELSE IF lhs.t = "Bytes" /\ op.m = "Contains" /\ rhs.t = "Bytes"
    THEN Some(bytes_contains(lhs.raw, rhs.raw))
    ELSE None

\* Option<bool>, or Panic when Regex::new(rhs).unwrap() fails
exec_op(lhs, op, rhs) ==
    IF op.k = "Ordering"
    THEN LET o == partial_cmp(lhs, rhs)
         IN  IF o.kind = "Some"
             THEN Some(mask_contains(op.mask, o.value))
             ELSE None
    ELSE IF lhs.t = "Bytes" /\ op.m = "Matches" /\ rhs.t = "Bytes"
    THEN IF as_str(lhs.raw).kind = "Some" /\ as_str(rhs.raw).kind = "Some"
         THEN IF regex_new_ok(as_str(rhs.raw).value)
              THEN Some(regex_is_match(as_str(rhs.raw).value,
                                       as_str(lhs.raw).value))
              ELSE Panic
         ELSE None
    ELSE IF lhs.t = "Unsigned" /\ op.m = "BitwiseAnd" /\ rhs.t = "Unsigned"
    THEN Some(bitand(lhs.n, rhs.n) # 0)
    ELSE IF lhs.t = "Bytes" /\ op.m = "Contains" /\ rhs.t = "Bytes"
    THEN Some(bytes_contains(lhs.raw, rhs.raw))
    ELSE None

----------------------------------------------------------------------------
(* impl Context for &ExecutionContext *)

get_field(self, path) ==
    IF path \in DOMAIN self THEN Some(self[path]) ELSE None

\* type_of that reports every byte sequence as Bytes
type_of_no_text(lhs) ==
    IF lhs.t = "IpAddr" /\ lhs.fam = "V4" THEN "IpAddrV4"
    ELSE IF lhs.t = "IpAddr" /\ lhs.fam = "V6" THEN "IpAddrV6"
    ELSE IF lhs.t = "Bytes" THEN "Bytes"
    ELSE "Unsigned"

type_of(lhs) ==
    IF lhs.t = "IpAddr" /\ lhs.fam = "V4" THEN "IpAddrV4"
    ELSE IF lhs.t = "IpAddr" /\ lhs.fam = "V6" THEN "IpAddrV6"
    ELSE IF lhs.t = "Bytes"
    THEN IF is_str(lhs.raw) THEN "String" ELSE "Bytes"
    ELSE "Unsigned"

compare(lhs, op, rhs) ==
    LET r == exec_op(lhs, op, rhs)
    IN  IF r.kind = "Panic" THEN Panic
        ELSE IF r.kind = "Some" THEN Ok(r.value)
        ELSE Err(type_of(lhs))

\* one_of that treats a mismatched candidate as a candidate that did not match
RECURSIVE one_of_loop_skip_mismatch(_, _, _, _)
one_of_loop_skip_mismatch(lhs, rhs, i, acc) ==
    IF i > Len(rhs) THEN Ok(acc)
    ELSE LET r == compare(lhs, [k |-> "Ordering", mask |-> EQUAL], rhs[i])
         IN  IF r.kind # "Ok"
             THEN one_of_loop_skip_mismatch(lhs, rhs, i + 1, acc)
             ELSE one_of_loop_skip_mismatch(lhs, rhs, i + 1, acc \/ r.val)

RECURSIVE one_of_loop(_, _, _, _)
one_of_loop(lhs, rhs, i, acc) ==
    IF i > Len(rhs) THEN Ok(acc)
    ELSE LET r == compare(lhs, [k |-> "Ordering", mask |-> EQUAL], rhs[i])
         IN  IF r.kind # "Ok" THEN r
             ELSE one_of_loop(lhs, rhs, i + 1, acc \/ r.val)

one_of(lhs, rhs) == one_of_loop(lhs, rhs, 1, TRUE)

----------------------------------------------------------------------------
(* impl Filter for bool *)

\* combine whose Xor arm tests for equality
combine_xor_as_eq(self, op, other) ==
    IF op = "And" THEN self /\ other
    ELSE IF op = "Or" THEN self \/ other
    ELSE self = other

combine(self, op, other) ==
    IF op = "And" THEN self /\ other
    ELSE IF op = "Or" THEN self \/ other
    ELSE self # other

unary(self, op) == ~self

----------------------------------------------------------------------------
(* The execution context and the calls made on it *)

KnownPaths == {"f"}

Paths == {"f", "g"}

ExecutionContext == UNION {[S -> LhsValue] : S \in SUBSET KnownPaths}

CandSeqs == UNION {[1..n -> RhsValue] : n \in 0..MaxCands}

\* evaluation is synchronous: a call starts only when no call is in progress
Idle == call.fn = "idle"

Failed(r) == r.kind \in {"Err", "None", "Panic"}

Init ==
    /\ env \in ExecutionContext
    /\ call = [fn |-> "idle"]
    /\ result = [kind |-> "Unit"]
    /\ had_failure = FALSE

\* get_field that enters a default value for a path it does not find
CallGetField_inserting ==
    /\ Idle
    /\ \E path \in Paths :
        /\ call' = [fn |-> "get_field", path |-> path]
        /\ result' = get_field(env, path)
        /\ env' = IF path \in DOMAIN env THEN env
                  ELSE [p \in DOMAIN env \cup {path} |->
                            IF p = path THEN [t |-> "Unsigned", n |-> 0]
                            ELSE env[p]]
    /\ UNCHANGED had_failure

CallGetField ==
    /\ Idle
    /\ \E path \in Paths :
        /\ call' = [fn |-> "get_field", path |-> path]
        /\ result' = get_field(env, path)
    /\ UNCHANGED <<env, had_failure>>

\* the value compared is one the caller obtained from get_field
CallCompare ==
    /\ Idle
    /\ \E path \in DOMAIN env, op \in ComparisonOp, rhs \in RhsValue :
        /\ call' = [fn |-> "compare", lhs |-> env[path], op |-> op, rhs |-> rhs]
        /\ result' = compare(env[path], op, rhs)
    /\ UNCHANGED <<env, had_failure>>

CallOneOf ==
    /\ Idle
    /\ \E path \in DOMAIN env, rhs \in CandSeqs :
        /\ call' = [fn |-> "one_of", lhs |-> env[path], cands |-> rhs]
        /\ result' = one_of(env[path], rhs)
    /\ UNCHANGED <<env, had_failure>>

CallCombine ==
    /\ Idle
    /\ \E a \in BOOLEAN, op \in CombiningOp, b \in BOOLEAN :
        /\ call' = [fn |-> "combine", a |-> a, cop |-> op, b |-> b]
        /\ result' = [kind |-> "Bool", val |-> combine(a, op, b)]
    /\ UNCHANGED <<env, had_failure>>

CallUnary ==
    /\ Idle
    /\ \E a \in BOOLEAN, op \in UnaryOp :
        /\ call' = [fn |-> "unary", a |-> a, uop |-> op]
        /\ result' = [kind |-> "Bool", val |-> unary(a, op)]
    /\ UNCHANGED <<env, had_failure>>

\* the call returns and the caller consumes its result; a panic unwinds out
\* of the evaluation and nothing is called afterwards
Return ==
    /\ ~Idle
    /\ result.kind # "Panic"
    /\ call' = [fn |-> "idle"]
    /\ result' = [kind |-> "Unit"]
    /\ had_failure' = (had_failure \/ Failed(result))
    /\ UNCHANGED env

Next ==
    \/ CallGetField
    \/ CallCompare
    \/ CallOneOf
    \/ CallCombine
    \/ CallUnary
    \/ Return

Spec == Init /\ [][Next]_vars

----------------------------------------------------------------------------
(* range_order on its own: the inputs are drawn at the start, one step     *)
(* applies the function.                                                   *)

RangeVals == 0..RangeMax

InitRange ==
    /\ env = << >>
    /\ \E v \in RangeVals, f \in RangeVals, l \in RangeVals :
        call = [fn |-> "range_order", v |-> v, first |-> f, last |-> l]
    /\ result = [kind |-> "Unit"]
    /\ had_failure = FALSE

CallRangeOrder ==
    /\ result.kind = "Unit"
    /\ result' = [kind |-> "Ordering",
                  ord |-> range_order(call.v, call.first, call.last)]
    /\ UNCHANGED <<env, call, had_failure>>

NextRange == CallRangeOrder

SpecRange == InitRange /\ [][NextRange]_vars

----------------------------------------------------------------------------
(* Properties *)

EqOp == [k |-> "Ordering", mask |-> EQUAL]

\* the tag of a runtime value, read off the value alone
ExpectedTag(v) ==
    CASE v.t = "IpAddr" /\ v.fam = "V4" -> "IpAddrV4"
      [] v.t = "IpAddr" /\ v.fam = "V6" -> "IpAddrV6"
      [] v.t = "Unsigned" -> "Unsigned"
      [] v.t = "Bytes" /\ (\E i \in 1..Len(v.raw) : v.raw[i] >= 128) -> "Bytes"
      [] v.t = "Bytes" /\ (\A i \in 1..Len(v.raw) : v.raw[i] < 128) -> "String"

ValidText(v) == v.t = "Bytes" /\ \A i \in 1..Len(v.raw) : v.raw[i] < 128

\* the domains of a value and an operand align
Aligned(v, c) ==
    \/ v.t = "IpAddr" /\ c.t = "IpCidr" /\ v.fam = c.fam
    \/ v.t = "Bytes" /\ c.t = "Bytes"
    \/ v.t = "Unsigned" /\ c.t = "Unsigned"

\* the domain pairing a matching operator accepts
Accepts(m, v, c) ==
    \/ m = "Matches" /\ v.t = "Bytes" /\ c.t = "Bytes"
    \/ m = "BitwiseAnd" /\ v.t = "Unsigned" /\ c.t = "Unsigned"
    \/ m = "Contains" /\ v.t = "Bytes" /\ c.t = "Bytes"

\* lexicographic byte order: a is a proper prefix of b, or the first byte
\* where they differ is smaller in a
LexLess(a, b) ==
    \E k \in 0..Len(a) :
        /\ k <= Len(b)
        /\ \A i \in 1..k : a[i] = b[i]
        /\ \/ k = Len(a) /\ k < Len(b)
           \/ k < Len(a) /\ k < Len(b) /\ a[k + 1] < b[k + 1]

RangeFirst(c) == c.base

RangeLast(c) == CHOOSE x \in Addrs :
    /\ x >= c.base
    /\ \A y \in Addrs :
        (y \div Pow2(AddrBits - c.len) = c.base \div Pow2(AddrBits - c.len))
            <=> (c.base <= y /\ y <= x)

ExpectedOrd(v, c) ==
    CASE v.t = "Unsigned" ->
            IF v.n < c.n THEN "Less" ELSE IF v.n = c.n THEN "Equal" ELSE "Greater"
      [] v.t = "Bytes" ->
            IF LexLess(v.raw, c.raw) THEN "Less"
            ELSE IF v.raw = c.raw THEN "Equal" ELSE "Greater"
      [] v.t = "IpAddr" ->
            IF v.addr < RangeFirst(c) THEN "Less"
            ELSE IF v.addr > RangeLast(c) THEN "Greater" ELSE "Equal"

Matched(v, c) == compare(v, EqOp, c) = Ok(TRUE)

Mismatched(v, c) == compare(v, EqOp, c).kind = "Err"

\* C1: when no candidate signals a type mismatch, one_of returns true iff at
\* least one candidate compares equal to the value; in particular false for
\* the empty sequence and for a sequence without a match.
C1_OneOfIffSomeMatch ==
    (/\ call.fn = "one_of"
     /\ \A i \in 1..Len(call.cands) : ~Mismatched(call.lhs, call.cands[i]))
    => result = Ok(\E i \in 1..Len(call.cands) : Matched(call.lhs, call.cands[i]))

\* C2: when no candidate matches and at least one candidate signals a type
\* mismatch, one_of returns the type mismatch carrying the value's tag.
C2_OneOfPropagatesMismatch ==
    (/\ call.fn = "one_of"
     /\ \A i \in 1..Len(call.cands) : ~Matched(call.lhs, call.cands[i])
     /\ \E i \in 1..Len(call.cands) : Mismatched(call.lhs, call.cands[i]))
    => result = Err(ExpectedTag(call.lhs))

C2_Witness ==
    /\ call.fn = "one_of"
    /\ Len(call.cands) = 2
    /\ call.lhs.t = "IpAddr"
    /\ \A i \in 1..Len(call.cands) : call.cands[i].t = "Unsigned"
    /\ result = Err("IpAddrV4")

\* C3: Matches on a valid-text value and a valid-text operand that is not a
\* valid pattern does not crash: it ends in an error that is neither a
\* boolean nor a type mismatch.
C3_InvalidPatternIsReported ==
    (/\ call.fn = "compare"
     /\ call.op = [k |-> "Matching", m |-> "Matches"]
     /\ ValidText(call.lhs)
     /\ ValidText(call.rhs)
     /\ ~regex_new_ok(call.rhs.raw))
    => result.kind \notin {"Panic", "Err", "Ok"}

\* C4: compare on a pair whose domains do not align returns a type mismatch
\* for every operator, and so does a matching operator on a pairing it does
\* not accept.
C4_MismatchedDomains ==
    call.fn = "compare" =>
        /\ ~Aligned(call.lhs, call.rhs) => result.kind = "Err"
        /\ (call.op.k = "Matching" /\ ~Accepts(call.op.m, call.lhs, call.rhs))
            => result.kind = "Err"

C4_Witness ==
    /\ call.fn = "compare"
    /\ call.lhs.t = "IpAddr" /\ call.lhs.fam = "V4"
    /\ call.rhs.t = "IpCidr" /\ call.rhs.fam = "V6"
    /\ call.op.k = "Ordering" /\ call.op.mask = Orderings
    /\ result.kind = "Err"

\* C5: for first <= last, range_order returns Less iff the value is below
\* first, Greater iff it is above last, and Equal iff it lies in between.
C5_RangeOrder ==
    (result.kind = "Ordering" /\ call.first <= call.last) =>
        /\ result.ord \in Orderings
        /\ result.ord = "Less" <=> call.v < call.first
        /\ result.ord = "Greater" <=> call.v > call.last
        /\ result.ord = "Equal" <=> (call.first <= call.v /\ call.v <= call.last)

C5_Witness ==
    /\ result.kind = "Ordering"
    /\ call.first < call.last
    /\ call.v = call.last
    /\ result.ord = "Equal"

\* C6: on a same-domain pair an ordering operator with mask m returns the
\* boolean "the ordering of the value against the operand is in m": natural
\* order for integers, lexicographic order for bytes, position relative to
\* the inclusive range for an address against an address range.
C6_OrderingInMask ==
    (/\ call.fn = "compare"
     /\ call.op.k = "Ordering"
     /\ Aligned(call.lhs, call.rhs))
    => /\ result = Ok(ExpectedOrd(call.lhs, call.rhs) \in call.op.mask)
       /\ (call.lhs.t = "IpAddr" /\ call.op.mask = {"Equal"}) =>
            (result.val <=> (/\ RangeFirst(call.rhs) <= call.lhs.addr
                             /\ call.lhs.addr <= RangeLast(call.rhs)))
       /\ (call.lhs.t = "IpAddr" /\ call.op.mask = {"Greater"}) =>
            (result.val <=> call.lhs.addr > RangeLast(call.rhs))

C6_Witness ==
    /\ call.fn = "compare"
    /\ call.op = [k |-> "Ordering", mask |-> {"Equal"}]
    /\ call.lhs.t = "IpAddr"
    /\ call.rhs.t = "IpCidr" /\ call.rhs.fam = call.lhs.fam
    /\ call.lhs.addr # call.rhs.base
    /\ result = Ok(TRUE)

\* C7: Matches on two byte sequences yields a boolean only when both are
\* valid text; when either is not, the result is a type mismatch and the
\* pattern is not compiled (an invalid pattern text does not make it fail).
C7_MatchesNeedsText ==
    (/\ call.fn = "compare"
     /\ call.op = [k |-> "Matching", m |-> "Matches"]
     /\ call.lhs.t = "Bytes"
     /\ call.rhs.t = "Bytes")
    => /\ result.kind = "Ok" => (ValidText(call.lhs) /\ ValidText(call.rhs))
       /\ ~(ValidText(call.lhs) /\ ValidText(call.rhs)) => result.kind = "Err"

C7_Witness ==
    /\ call.fn = "compare"
    /\ call.op = [k |-> "Matching", m |-> "Matches"]
    /\ call.lhs.t = "Bytes" /\ ~ValidText(call.lhs)
    /\ call.rhs.t = "Bytes" /\ ValidText(call.rhs)
    /\ ~regex_new_ok(call.rhs.raw)
    /\ result.kind = "Err"

\* C8: a type mismatch returned by compare or one_of carries the tag of the
\* runtime value, whatever the operand and the operator.
C8_TagOfValue ==
    (call.fn \in {"compare", "one_of"} /\ result.kind = "Err")
    => result.ty = ExpectedTag(call.lhs)

C8_Witness ==
    /\ call.fn = "compare"
    /\ result = Err("Bytes")
    /\ call.rhs.t = "Bytes"
    /\ call.op.k = "Matching"

\* C9: combine and unary follow the truth tables of And, Or, Xor and Not.
C9_TruthTables ==
    /\ call.fn = "combine" =>
        /\ call.cop = "And" => (result.val <=> (call.a /\ call.b))
        /\ call.cop = "Or" => (result.val <=> (call.a \/ call.b))
        /\ call.cop = "Xor" => (result.val <=> (call.a # call.b))
        /\ result.kind = "Bool"
    /\ call.fn = "unary" =>
        /\ result.val <=> ~call.a
        /\ result.kind = "Bool"

C9_Witness ==
    /\ call.fn = "combine"
    /\ call.cop = "Xor" /\ call.a /\ call.b
    /\ result.val = FALSE

\* C10: no call changes the environment's mapping, so a lookup always
\* answers from the mapping the environment was built with, and an unknown
\* path is answered with "absent".
C10_EnvReadOnly ==
    [][/\ env' = env
       /\ call'.fn = "get_field" =>
            result' = IF call'.path \in DOMAIN env
                      THEN Some(env[call'.path])
                      ELSE None]_vars

C10_Witness ==
    /\ had_failure
    /\ call.fn = "get_field"
    /\ call.path \notin DOMAIN env
    /\ result = None

====
